---- MODULE Spec2Model ----
(***************************************************************************)
(* Voxel builder: the model transition controller of App.tsx, the          *)
(* animation engine of VoxelRenderer.tsx (src/unnamed/part_000) and the    *)
(* enabling conditions of Controls.tsx.                                    *)
(*                                                                         *)
(* What the model keeps and what it abstracts:                             *)
(*  - Every React state cell of App and every ref of VoxelRenderer is a    *)
(*    variable.  A handler, the re-render it causes and the layout effect  *)
(*    (or the unmount/mount when the key changes) of that re-render are    *)
(*    one atomic step: the model assumes React commits a state update      *)
(*    before the next frame, timer or input event is delivered.            *)
(*  - A closure reads the state of the render that created it.  The only   *)
(*    closure that outlives its render is the async handleGenerate, whose  *)
(*    startModelTransition reads the animationState of the render in which *)
(*    the prompt was submitted (variable generation.seen).                 *)
(*  - Voxel colours are left out (opaque to the controller and engine).    *)
(*  - The rigid-body integration of a particle is abstracted to its        *)
(*    outcome for the frame: still moving, or clamped to the floor and     *)
(*    asleep.  Position, orientation and velocities are kept as tags.      *)
(*  - Time is not a variable.  The three orderings that the delays of the  *)
(*    code fix are guards (see DelayPending): the 50 ms / 100 ms deferred  *)
(*    ASSEMBLING commands fire before the 3000 ms safety timer, before an  *)
(*    assembly can reach progress 1 (at least 1/0.8 s) and before an       *)
(*    exploded particle can be back on the floor.                          *)
(***************************************************************************)
EXTENDS Integers, Sequences, FiniteSets, TLC

VARIABLES
    \* ---- App.tsx state cells
    voxels,              \* active Voxel Set
    currentModelName,
    selectedPresetId,
    animationState,
    generationStatus,
    isAssembled,
    history,
    pendingVoxels,
    pendingModelName,
    isTransitioning,
    modelVersion,
    cameraResetTrigger,
    \* ---- VoxelRenderer refs of the mounted instance
    particles,
    assemblyProgress,
    lastState,
    disassemblyTimeoutRef,
    centering,           \* useMemo: the centering offset and the floor reference
    \* ---- browser: callbacks that are scheduled and have not run yet
    safetyTimer,         \* TRUE while the DISASSEMBLY_TIMEOUT_MS timer is pending
    mounted,             \* FALSE once a layout effect threw: the tree is unmounted
    rafPending,          \* requestAnimationFrame callbacks of handleAnimationComplete
    timers50,            \* pending setTimeout(.., 50) of startModelTransition
    timers100,           \* pending setTimeout(.., 100) of handleAnimationComplete
    generation,          \* the outstanding generateVoxelModel call, or NoGeneration
    genCount,            \* number of prompts submitted so far (Date.now() stand-in)
    \* ---- observation (history variables, read by no action)
    ev,                  \* the operation that produced the current state
    scenario,            \* the phases seen since a requestModel in ASSEMBLED
    episode              \* the requests made in the current DISASSEMBLING episode

appVars == <<voxels, currentModelName, selectedPresetId, animationState,
             generationStatus, isAssembled, history, pendingVoxels,
             pendingModelName, isTransitioning, modelVersion, cameraResetTrigger>>
rendererVars == <<particles, assemblyProgress, lastState, disassemblyTimeoutRef,
                  safetyTimer, mounted>>
memoVars == <<centering>>
browserVars == <<rafPending, timers50, timers100, generation, genCount>>
obsVars == <<ev, scenario, episode>>
vars == <<appVars, rendererVars, memoVars, browserVars, obsVars>>

-----------------------------------------------------------------------------
\* Bounds of the model
MaxVersion == 1        \* commits explored: no model is requested beyond it
MaxGenerations == 1    \* prompts submitted in one behaviour

\* Program constants
HISTORY_LIMIT == 20
DISASSEMBLY_TIMEOUT_MS == 3000
PRESENT_DELAY_MS == 50
TRANSITION_DELAY_MS == 100
MAX_STEP_MS == 40                 \* Math.min(delta, 0.04)
ASSEMBLY_RATE_TENTHS == 8         \* dt * 0.8
PROGRESS_ONE == 10000             \* progress 1, in units of 1/10000

\* AnimationState enum
IDLE == "IDLE"
ASSEMBLING == "ASSEMBLING"
ASSEMBLED == "ASSEMBLED"
DISASSEMBLING == "DISASSEMBLING"
COLLAPSED == "COLLAPSED"
HIDDEN == "HIDDEN"
AnimationState == {IDLE, ASSEMBLING, ASSEMBLED, DISASSEMBLING, COLLAPSED, HIDDEN}

NULL == "null"
\* A nullable Voxel[] cell: None is null, Some(v) holds the list v
None == <<>>
Some(v) == <<v>>
NoGeneration == [active |-> FALSE, prompt |-> "", seen |-> HIDDEN]

Voxel(x, y, z) == [x |-> x, y |-> y, z |-> z]

\* Stand-ins for the preset voxel lists (the real ones hold hundreds of voxels)
SPHERE_VOXELS == <<Voxel(0, -1, 0), Voxel(0, 1, 0)>>
CUBE_VOXELS == <<Voxel(-1, 0, 0)>>
PRESETS == << [id |-> "sphere", name |-> "Esfera HD", voxels |-> SPHERE_VOXELS],
              [id |-> "cube", name |-> "Cubo RGB", voxels |-> CUBE_VOXELS] >>

\* What the user can have typed in the prompt box, and what the gateway can answer
Prompts == {"gato"}
GatewayAnswers == { <<>>, <<Voxel(0, 0, 0)>> }
\* Frame gaps delivered by the render loop, in ms
Deltas == {40, 100}
Tabs == {"presets", "create", "history"}

Min(a, b) == IF a < b THEN a ELSE b
SeqToSet(s) == {s[i] : i \in 1..Len(s)}

\* String.prototype.trim on the strings the model uses
Trim(s) == IF s = " " THEN "" ELSE s

-----------------------------------------------------------------------------
\* Model centering and floor level: useMemo(() => {...}, [voxels]).
\* offset2 is twice the offset (the offset has halves of a voxel unit).
Infinity == 1000
NoBox == [minX |-> Infinity, maxX |-> -Infinity, minY |-> Infinity,
          maxY |-> -Infinity, minZ |-> Infinity, maxZ |-> -Infinity]
ZeroBox == [minX |-> 0, maxX |-> 0, minY |-> 0, maxY |-> 0, minZ |-> 0, maxZ |-> 0]

\* voxels.forEach(v => { if (v.x < minX) minX = v.x; ... }), from voxel i on
RECURSIVE BoundingBox(_, _, _)
BoundingBox(vox, i, box) ==
    IF i > Len(vox) THEN box
    ELSE LET v == vox[i]
         IN  BoundingBox(vox, i + 1,
                 [minX |-> IF v.x < box.minX THEN v.x ELSE box.minX,
                  maxX |-> IF v.x > box.maxX THEN v.x ELSE box.maxX,
                  minY |-> IF v.y < box.minY THEN v.y ELSE box.minY,
                  maxY |-> IF v.y > box.maxY THEN v.y ELSE box.maxY,
                  minZ |-> IF v.z < box.minZ THEN v.z ELSE box.minZ,
                  maxZ |-> IF v.z > box.maxZ THEN v.z ELSE box.maxZ])

CenteringFrom(vox, start) ==
    IF Len(vox) = 0 THEN [offset2 |-> <<0, 0, 0>>, floorY |-> 0]
    ELSE LET box == BoundingBox(vox, 1, start)
         IN  [offset2 |-> <<-(box.minX + box.maxX), -2 * box.minY + 1,
                            -(box.minZ + box.maxZ)>>,
              floorY |-> box.minY]
Centering_zeroStart(vox) == CenteringFrom(vox, ZeroBox)
Centering(vox) == CenteringFrom(vox, NoBox)

-----------------------------------------------------------------------------
\* VoxelRenderer: the refs of one mounted instance, as a record
Renderer == [particles |-> particles, assemblyProgress |-> assemblyProgress,
             lastState |-> lastState, disassemblyTimeoutRef |-> disassemblyTimeoutRef,
             safetyTimer |-> safetyTimer, mounted |-> mounted]

SetRenderer(r) ==
    /\ particles' = r.particles
    /\ assemblyProgress' = r.assemblyProgress
    /\ lastState' = r.lastState
    /\ disassemblyTimeoutRef' = r.disassemblyTimeoutRef
    /\ safetyTimer' = r.safetyTimer
    /\ mounted' = r.mounted

\* particles.current = voxels.map(v => ({position: v, ..., isSleeping: false}))
NewParticle == [position |-> "voxel", quaternion |-> "identity", velocity |-> "zero",
                angularVelocity |-> "zero", isSleeping |-> FALSE]
AllocateParticles(vox) == [i \in 1..Len(vox) |-> NewParticle]

\* HIDDEN branch: reset particles to center
HideParticle(p) == [p EXCEPT !.position = "origin", !.quaternion = "identity",
                             !.velocity = "zero", !.angularVelocity = "zero"]
\* ASSEMBLED branch: force exact position alignment, lock physics
LockParticle(p) == [position |-> "voxel", quaternion |-> "identity", velocity |-> "zero",
                    angularVelocity |-> "zero", isSleeping |-> TRUE]
\* explosion: reset to the shape, wake, random impulse and spin
ExplodeParticle(p) == [position |-> "voxel", quaternion |-> "identity",
                       velocity |-> "impulse", angularVelocity |-> "spin",
                       isSleeping |-> FALSE]
WakeParticle(p) == [p EXCEPT !.isSleeping = FALSE]

\* The cleanup of the unmount effect
Unmount(r) ==
    IF r.disassemblyTimeoutRef # NULL THEN [r EXCEPT !.safetyTimer = FALSE] ELSE r

\* useRef initial values of a new instance
FreshRenderer == [particles |-> <<>>, assemblyProgress |-> 0, lastState |-> HIDDEN,
                  disassemblyTimeoutRef |-> NULL, safetyTimer |-> FALSE,
                  mounted |-> TRUE]

\* voxels.forEach(.. setColorAt ..); meshRef.current.instanceColor!.needsUpdate = true
\* The instanceColor of an InstancedMesh is null until the first setColorAt: with
\* no voxel the assignment throws, the effect stops there and, there being no
\* error boundary, the tree is unmounted.
ColorsThrow(vox) == Len(vox) = 0

\* useLayoutEffect(.., [voxels, animationState, offset])
LayoutEffect(r, vox, st) ==
    LET p1 == IF Len(r.particles) # Len(vox) THEN AllocateParticles(vox)
              ELSE r.particles
        p2 == IF st = HIDDEN THEN [i \in 1..Len(vox) |-> HideParticle(p1[i])]
              ELSE IF st = ASSEMBLED THEN [i \in 1..Len(vox) |-> LockParticle(p1[i])]
              ELSE p1
    IN  IF ColorsThrow(vox)
        THEN [r EXCEPT !.particles = p1, !.mounted = FALSE]
        ELSE IF st = DISASSEMBLING /\ r.lastState # DISASSEMBLING
        THEN [r EXCEPT !.particles = [i \in 1..Len(vox) |-> ExplodeParticle(p2[i])],
                       !.disassemblyTimeoutRef = "timer",
                       !.safetyTimer = TRUE,
                       !.lastState = st]
        ELSE IF st = ASSEMBLING /\ r.lastState # ASSEMBLING
        THEN [r EXCEPT !.particles = [i \in 1..Len(p2) |-> WakeParticle(p2[i])],
                       !.assemblyProgress = 0,
                       !.lastState = st]
        ELSE [r EXCEPT !.particles = p2, !.lastState = st]

\* The re-render that follows a handler: <VoxelRenderer key={name-version} .../>
\* is remounted when the key changes (the old instance's cleanup runs, the new
\* instance starts from the useRef initial values and runs its layout effect),
\* otherwise its layout effect runs when one of its dependencies changed.
\* r is the renderer as the handler left it.
Rerender_noRemount(r) ==
    IF voxels' # voxels \/ animationState' # animationState
    THEN LayoutEffect(r, voxels', animationState')
    ELSE r
Rerender(r) ==
    IF currentModelName' # currentModelName \/ modelVersion' # modelVersion
    THEN LayoutEffect([FreshRenderer EXCEPT !.safetyTimer = Unmount(r).safetyTimer],
                      voxels', animationState')
    ELSE IF voxels' # voxels \/ animationState' # animationState
    THEN LayoutEffect(r, voxels', animationState')
    ELSE r

RenderCommit(r) == SetRenderer(Rerender(r))

-----------------------------------------------------------------------------
\* Deferred ASSEMBLING commands that are scheduled and have not run yet
DelayCount == rafPending + timers50 + timers100
DelayPending == DelayCount > 0

\* The shortest real time an assembly takes (progress gains at most 0.8 per
\* second of elapsed time) and the orderings the timer delays fix
MinAssemblyMs == (PROGRESS_ONE \div ASSEMBLY_RATE_TENTHS)
DelayBeforeAssemblyEnds ==
    (PRESENT_DELAY_MS < MinAssemblyMs /\ TRANSITION_DELAY_MS + MAX_STEP_MS < MinAssemblyMs)
        => ~DelayPending
DelayBeforeSafetyTimer ==
    (PRESENT_DELAY_MS < DISASSEMBLY_TIMEOUT_MS
        /\ TRANSITION_DELAY_MS + MAX_STEP_MS < DISASSEMBLY_TIMEOUT_MS)
        => ~DelayPending

-----------------------------------------------------------------------------
\* App.tsx handlers.  Each is the handler's own assignments; the caller adds
\* what the handler leaves alone and the re-render.

Truthy(cell) == cell # None
TruthyName(n) == n # NULL /\ n # ""

\* The branch startModelTransition takes on the animationState it reads
RequestBranch_noHook(seen) ==
    IF seen = ASSEMBLED THEN "break" ELSE "swap"
RequestBranch(seen) ==
    IF seen = ASSEMBLED THEN "break"
    ELSE IF seen = DISASSEMBLING THEN "hook"
    ELSE "swap"

\* setPendingVoxels(newVoxels) at the head of startModelTransition
PendingAfterRequest_keep(newVoxels) ==
    IF Truthy(pendingVoxels) THEN pendingVoxels ELSE Some(newVoxels)
PendingAfterRequest(newVoxels) == Some(newVoxels)

\* startModelTransition, run in a closure whose animationState is `seen`
startModelTransition(seen, newVoxels, newName) ==
    IF RequestBranch(seen) = "break"
    THEN /\ modelVersion < MaxVersion
         /\ pendingVoxels' = PendingAfterRequest(newVoxels)
         /\ pendingModelName' = newName
         /\ isTransitioning' = TRUE
         /\ animationState' = DISASSEMBLING
         /\ UNCHANGED <<voxels, currentModelName, modelVersion, cameraResetTrigger,
                        timers50>>
    ELSE IF RequestBranch(seen) = "hook"
    THEN /\ modelVersion < MaxVersion
         /\ pendingVoxels' = PendingAfterRequest(newVoxels)
         /\ pendingModelName' = newName
         /\ isTransitioning' = TRUE
         /\ UNCHANGED <<animationState, voxels, currentModelName, modelVersion,
                        cameraResetTrigger, timers50>>
    ELSE /\ modelVersion < MaxVersion
         /\ voxels' = newVoxels
         /\ currentModelName' = newName
         /\ pendingVoxels' = None
         /\ pendingModelName' = NULL
         /\ modelVersion' = modelVersion + 1
         /\ cameraResetTrigger' = cameraResetTrigger + 1
         /\ animationState' = HIDDEN
         /\ timers50' = timers50 + 1
         /\ UNCHANGED isTransitioning

\* commitPendingModel
commitPendingModel_noClear ==
    IF Truthy(pendingVoxels) /\ TruthyName(pendingModelName)
    THEN /\ voxels' = pendingVoxels[1]
         /\ currentModelName' = pendingModelName
         /\ modelVersion' = modelVersion + 1
         /\ cameraResetTrigger' = cameraResetTrigger + 1
         /\ UNCHANGED <<pendingVoxels, pendingModelName>>
    ELSE UNCHANGED <<voxels, currentModelName, pendingVoxels, pendingModelName,
                     modelVersion, cameraResetTrigger>>
commitPendingModel ==
    IF Truthy(pendingVoxels) /\ TruthyName(pendingModelName)
    THEN /\ voxels' = pendingVoxels[1]
         /\ currentModelName' = pendingModelName
         /\ pendingVoxels' = None
         /\ pendingModelName' = NULL
         /\ modelVersion' = modelVersion + 1
         /\ cameraResetTrigger' = cameraResetTrigger + 1
    ELSE UNCHANGED <<voxels, currentModelName, pendingVoxels, pendingModelName,
                     modelVersion, cameraResetTrigger>>

\* handleAnimationComplete, the completion callback
handleAnimationComplete_keepFlag ==
    IF animationState = ASSEMBLING
    THEN /\ animationState' = ASSEMBLED
         /\ isAssembled' = TRUE
         /\ UNCHANGED <<voxels, currentModelName, pendingVoxels, pendingModelName,
                        modelVersion, cameraResetTrigger, rafPending, isTransitioning>>
    ELSE IF animationState = DISASSEMBLING
    THEN IF isTransitioning
         THEN /\ commitPendingModel
              /\ animationState' = HIDDEN
              /\ rafPending' = rafPending + 1
              /\ UNCHANGED <<isAssembled, isTransitioning>>
         ELSE /\ animationState' = COLLAPSED
              /\ isAssembled' = FALSE
              /\ UNCHANGED <<voxels, currentModelName, pendingVoxels, pendingModelName,
                             modelVersion, cameraResetTrigger, rafPending,
                             isTransitioning>>
    ELSE UNCHANGED <<animationState, isAssembled, isTransitioning, voxels,
                     currentModelName, pendingVoxels, pendingModelName, modelVersion,
                     cameraResetTrigger, rafPending>>
handleAnimationComplete ==
    IF animationState = ASSEMBLING
    THEN /\ animationState' = ASSEMBLED
         /\ isAssembled' = TRUE
         /\ isTransitioning' = FALSE
         /\ UNCHANGED <<voxels, currentModelName, pendingVoxels, pendingModelName,
                        modelVersion, cameraResetTrigger, rafPending>>
    ELSE IF animationState = DISASSEMBLING
    THEN IF isTransitioning
         THEN /\ commitPendingModel
              /\ animationState' = HIDDEN
              /\ rafPending' = rafPending + 1
              /\ UNCHANGED <<isAssembled, isTransitioning>>
         ELSE /\ animationState' = COLLAPSED
              /\ isAssembled' = FALSE
              /\ UNCHANGED <<voxels, currentModelName, pendingVoxels, pendingModelName,
                             modelVersion, cameraResetTrigger, rafPending,
                             isTransitioning>>
    ELSE UNCHANGED <<animationState, isAssembled, isTransitioning, voxels,
                     currentModelName, pendingVoxels, pendingModelName, modelVersion,
                     cameraResetTrigger, rafPending>>

\* What a step records: the operation, the model it names, the animationState
\* its closure read, and the animationState that was current when it ran
Request(op, name, vox, seen) ==
    [op |-> op, name |-> name, voxels |-> vox, seen |-> seen, at |-> animationState]
Event(op, name, seen) == Request(op, name, None, seen)

-----------------------------------------------------------------------------
\* Observation.  The history variables record what the steps did; no action
\* reads them.

CompletionOps == {"frameComplete", "timerComplete"}
\* Operations of the user, and calls of requestModel
InputOps == {"selectPreset", "generate", "requestModel", "assemble", "disassemble"}

Last(s) == s[Len(s)]
IsPrefix(s, t) == Len(s) <= Len(t) /\ \A i \in 1..Len(s) : s[i] = t[i]

\* scenario: opened by a requestModel made in ASSEMBLED with no Pending, closed
\* by the next input; path is the sequence of phases since the call
NoScenario == [on |-> FALSE, name |-> NULL, voxels |-> None, path |-> <<>>]
MaxPath == 6
ScenarioNext ==
    IF ev'.op = "requestModel" /\ animationState = ASSEMBLED /\ pendingVoxels = None
    THEN [on |-> TRUE, name |-> ev'.name, voxels |-> ev'.voxels,
          path |-> IF animationState' # ASSEMBLED THEN <<ASSEMBLED, animationState'>>
                   ELSE <<ASSEMBLED>>]
    ELSE IF ev'.op \in InputOps THEN NoScenario
    ELSE IF scenario.on /\ animationState' # Last(scenario.path)
            /\ Len(scenario.path) < MaxPath
    THEN [scenario EXCEPT !.path = Append(scenario.path, animationState')]
    ELSE scenario

\* episode: a DISASSEMBLING episode that a requestModel made in ASSEMBLED
\* started.  calls counts its requestModel calls (2 stands for two or more),
\* last is the most recent request, superseded says that it replaced a request
\* for another model, quiet is FALSE once a preset selection or a disassemble()
\* followed the most recent request.  The record is kept, with open = FALSE,
\* for the one state after the episode.
NoRequest == [name |-> NULL, voxels |-> None]
NoEpisode == [open |-> FALSE, calls |-> 0, last |-> NoRequest, superseded |-> FALSE,
              quiet |-> TRUE]
EpisodeNext ==
    LET req == [name |-> ev'.name, voxels |-> ev'.voxels]
    IN  IF animationState' = DISASSEMBLING /\ animationState = ASSEMBLED
           /\ ev'.op = "requestModel"
        THEN [open |-> TRUE, calls |-> 1, last |-> req, superseded |-> FALSE,
              quiet |-> TRUE]
        ELSE IF animationState' = DISASSEMBLING /\ animationState = DISASSEMBLING
                /\ episode.open
        THEN IF ev'.op = "requestModel"
             THEN [episode EXCEPT !.calls = 2, !.last = req,
                                  !.superseded = (req # episode.last), !.quiet = TRUE]
             ELSE IF ev'.op \in {"selectPreset", "disassemble"}
             THEN [episode EXCEPT !.quiet = FALSE]
             ELSE episode
        ELSE IF animationState = DISASSEMBLING /\ episode.open
        THEN [episode EXCEPT !.open = FALSE]
        ELSE NoEpisode

\* ... and the render that follows the step recomputes the memoized centering
Observe ==
    /\ scenario' = ScenarioNext
    /\ episode' = EpisodeNext
    /\ centering' = Centering(voxels')

-----------------------------------------------------------------------------
\* User operations, as Controls.tsx enables them

\* A preset button, or a history item button
Selectable == SeqToSet(PRESETS) \cup SeqToSet(history)

\* handleSelectPreset
SelectPreset ==
    \E preset \in Selectable :
        /\ mounted
        /\ selectedPresetId' = preset.id
        /\ pendingVoxels' = Some(preset.voxels)
        /\ pendingModelName' = preset.name
        /\ ev' = Event("selectPreset", preset.name, animationState)
        /\ UNCHANGED <<voxels, currentModelName, animationState, generationStatus,
                       isAssembled, history, isTransitioning, modelVersion,
                       cameraResetTrigger>>
        /\ UNCHANGED <<rendererVars, browserVars>>
        /\ Observe

\* handleGenerate up to its await
handleGenerate(prompt) ==
    /\ generation.active \/ genCount < MaxGenerations
    /\ generationStatus' = "generating"
    /\ generation' = [active |-> TRUE, prompt |-> prompt, seen |-> animationState]
    /\ genCount' = genCount + 1
    /\ ev' = Event("generate", prompt, animationState)
    /\ UNCHANGED <<voxels, currentModelName, selectedPresetId, animationState,
                   isAssembled, history, pendingVoxels, pendingModelName,
                   isTransitioning, modelVersion, cameraResetTrigger>>
    /\ UNCHANGED <<rendererVars, rafPending, timers50, timers100>>

\* handleAssemble
handleAssemble_ignoresPending ==
    /\ animationState' = ASSEMBLING
    /\ ev' = Event("assemble", NULL, animationState)
    /\ UNCHANGED <<voxels, currentModelName, pendingVoxels, pendingModelName,
                   isTransitioning, modelVersion, cameraResetTrigger, timers50>>
    /\ UNCHANGED <<selectedPresetId, generationStatus, isAssembled, history>>
    /\ UNCHANGED <<rafPending, timers100, generation, genCount>>
    /\ RenderCommit(Renderer)
handleAssemble ==
    /\ IF Truthy(pendingVoxels) /\ TruthyName(pendingModelName)
       THEN /\ startModelTransition(animationState, pendingVoxels[1], pendingModelName)
            /\ ev' = Request("requestModel", pendingModelName, pendingVoxels,
                             animationState)
       ELSE /\ animationState' = ASSEMBLING
            /\ ev' = Event("assemble", NULL, animationState)
            /\ UNCHANGED <<voxels, currentModelName, pendingVoxels, pendingModelName,
                           isTransitioning, modelVersion, cameraResetTrigger, timers50>>
    /\ UNCHANGED <<selectedPresetId, generationStatus, isAssembled, history>>
    /\ UNCHANGED <<rafPending, timers100, generation, genCount>>
    /\ RenderCommit(Renderer)

\* What the prompt box can hold when a button is pressed
PromptInputs == Prompts \cup {"", " ", currentModelName}

isAssembleDisabled_whileGenerating(activeTab, prompt) ==
    IF activeTab = "create"
    THEN Trim(prompt) = ""
         \/ (Trim(prompt) = currentModelName /\ isAssembled /\ ~Truthy(pendingVoxels))
    ELSE ~Truthy(pendingVoxels) /\ isAssembled
isAssembleDisabled(activeTab, prompt) ==
    LET isInputDifferent == activeTab = "create" /\ Trim(prompt) # currentModelName
        hasPendingChanges == Truthy(pendingVoxels)
    IN  \/ generationStatus = "generating"
        \/ IF activeTab = "create"
           THEN Trim(prompt) = "" \/ (~isInputDifferent /\ isAssembled /\ ~hasPendingChanges)
           ELSE ~hasPendingChanges /\ isAssembled

\* The submit button / the form's onSubmit: handleGenerateSubmit
SubmitPrompt ==
    \E prompt \in PromptInputs :
        /\ mounted
        /\ generationStatus # "generating"
        /\ Trim(prompt) # ""
        /\ handleGenerate(prompt)
        /\ Observe

\* The Assemble button: handleAssembleClick
AssembleClick ==
    \E activeTab \in Tabs, prompt \in PromptInputs :
        /\ mounted
        /\ ~isAssembleDisabled(activeTab, prompt)
        /\ IF activeTab = "create" /\ Trim(prompt) # "" /\ Trim(prompt) # currentModelName
           THEN handleGenerate(prompt)
           ELSE handleAssemble
        /\ Observe

\* The Disassemble button: handleDisassemble
DisassembleClick_keepFlag ==
    /\ mounted
    /\ isAssembled /\ generationStatus # "generating"
    /\ animationState' = DISASSEMBLING
    /\ ev' = Event("disassemble", NULL, animationState)
    /\ UNCHANGED <<voxels, currentModelName, selectedPresetId, generationStatus,
                   isAssembled, history, pendingVoxels, pendingModelName,
                   modelVersion, cameraResetTrigger, isTransitioning>>
    /\ UNCHANGED browserVars
    /\ RenderCommit(Renderer)
    /\ Observe
DisassembleClick ==
    /\ mounted
    /\ isAssembled /\ generationStatus # "generating"
    /\ isTransitioning' = FALSE
    /\ animationState' = DISASSEMBLING
    /\ ev' = Event("disassemble", NULL, animationState)
    /\ UNCHANGED <<voxels, currentModelName, selectedPresetId, generationStatus,
                   isAssembled, history, pendingVoxels, pendingModelName,
                   modelVersion, cameraResetTrigger>>
    /\ UNCHANGED browserVars
    /\ RenderCommit(Renderer)
    /\ Observe

-----------------------------------------------------------------------------
\* The Generation Gateway answers

GenIds == <<"gen-1", "gen-2", "gen-3", "gen-4">>

\* setHistory(prev => [newModel, ...prev].slice(0, 20))
AddToHistory_append(prev, newModel) ==
    LET updated == prev \o <<newModel>>
    IN  SubSeq(updated, 1, Min(Len(updated), HISTORY_LIMIT))
AddToHistory(prev, newModel) ==
    LET updated == <<newModel>> \o prev
    IN  SubSeq(updated, 1, Min(Len(updated), HISTORY_LIMIT))

\* handleGenerate after its await resolved with newVoxels.  startModelTransition
\* is the one of the render in which the prompt was submitted.
GenerateResolve ==
    \E newVoxels \in GatewayAnswers :
        /\ mounted
        /\ generation.active
        /\ generationStatus' = "success"
        /\ selectedPresetId' = NULL
        /\ LET newModel == [id |-> GenIds[genCount], name |-> generation.prompt,
                            voxels |-> newVoxels]
           IN  history' = AddToHistory(history, newModel)
        /\ startModelTransition(generation.seen, newVoxels, generation.prompt)
        /\ generation' = NoGeneration
        /\ ev' = Request("requestModel", generation.prompt, Some(newVoxels),
                         generation.seen)
        /\ UNCHANGED <<isAssembled, rafPending, timers100, genCount>>
        /\ RenderCommit(Renderer)
        /\ Observe

\* handleGenerate's catch: the gateway rejected, or its answer did not parse
GenerateReject_clearsPending ==
    /\ mounted
    /\ generation.active
    /\ generationStatus' = "error"
    /\ generation' = NoGeneration
    /\ pendingVoxels' = None
    /\ pendingModelName' = NULL
    /\ ev' = Event("generateFailed", generation.prompt, generation.seen)
    /\ UNCHANGED <<voxels, currentModelName, selectedPresetId, animationState,
                   isAssembled, history, isTransitioning, modelVersion,
                   cameraResetTrigger>>
    /\ UNCHANGED <<rendererVars, rafPending, timers50, timers100, genCount>>
    /\ Observe
GenerateReject ==
    /\ mounted
    /\ generation.active
    /\ generationStatus' = "error"
    /\ generation' = NoGeneration
    /\ ev' = Event("generateFailed", generation.prompt, generation.seen)
    /\ UNCHANGED <<voxels, currentModelName, selectedPresetId, animationState,
                   isAssembled, history, pendingVoxels, pendingModelName,
                   isTransitioning, modelVersion, cameraResetTrigger>>
    /\ UNCHANGED <<rendererVars, rafPending, timers50, timers100, genCount>>
    /\ Observe

-----------------------------------------------------------------------------
\* The render loop: useFrame

GRAVITY == 20
MIN_LAUNCH_SPEED == 5
\* An exploded particle is not back on the floor before it reached its apex
MinSettleMs == (MIN_LAUNCH_SPEED * 1000) \div GRAVITY
DelayBeforeSettle ==
    (PRESENT_DELAY_MS < MinSettleMs /\ TRANSITION_DELAY_MS + MAX_STEP_MS < MinSettleMs)
        => ~DelayPending

\* One integration step of a particle that is not asleep: it keeps moving, or
\* it is clamped to the floor plane and falls asleep there
FlyParticle(p) == [position |-> "air", quaternion |-> "rotated", velocity |-> "moving",
                   angularVelocity |-> "spin", isSleeping |-> FALSE]
RestParticle(p) == [position |-> "floor", quaternion |-> "rotated", velocity |-> "slow",
                    angularVelocity |-> "spin", isSleeping |-> TRUE]

ActiveParticles == {i \in 1..Len(voxels) : ~particles[i].isSleeping}

\* The UNCHANGED of a frame that only moves particles or progress
FrameKeepsApp == UNCHANGED <<appVars, browserVars>>

\* DISASSEMBLING or COLLAPSED with particles still moving
FramePhysics ==
    /\ mounted
    /\ animationState \in {DISASSEMBLING, COLLAPSED}
    /\ ActiveParticles # {}
    /\ \E settled \in SUBSET ActiveParticles :
        /\ settled # {} => DelayBeforeSettle
        /\ particles' = [i \in 1..Len(particles) |->
                            IF i \in settled THEN RestParticle(particles[i])
                            ELSE IF i \in ActiveParticles THEN FlyParticle(particles[i])
                            ELSE particles[i]]
    /\ ev' = Event("frame", NULL, animationState)
    /\ UNCHANGED <<assemblyProgress, lastState, disassemblyTimeoutRef, safetyTimer,
                   mounted>>
    /\ FrameKeepsApp
    /\ Observe

\* COLLAPSED with every particle asleep: nothing is integrated, nothing is signalled
FrameRest ==
    /\ mounted
    /\ animationState = COLLAPSED
    /\ ActiveParticles = {}
    /\ ev' = Event("frame", NULL, animationState)
    /\ UNCHANGED rendererVars
    /\ FrameKeepsApp
    /\ Observe

\* DISASSEMBLING with no active particle: clear the safety timer, signal completion
FrameSettled_anyPhase ==
    /\ mounted
    /\ animationState \in {DISASSEMBLING, COLLAPSED}
    /\ ActiveParticles = {}
    /\ handleAnimationComplete
    /\ ev' = Event("frameComplete", NULL, animationState)
    /\ UNCHANGED <<selectedPresetId, generationStatus, history>>
    /\ UNCHANGED <<timers50, timers100, generation, genCount>>
    /\ RenderCommit(IF disassemblyTimeoutRef # NULL
                    THEN [Renderer EXCEPT !.disassemblyTimeoutRef = NULL,
                                          !.safetyTimer = FALSE]
                    ELSE Renderer)
    /\ Observe
FrameSettled ==
    /\ mounted
    /\ animationState = DISASSEMBLING
    /\ ActiveParticles = {}
    /\ handleAnimationComplete
    /\ ev' = Event("frameComplete", NULL, animationState)
    /\ UNCHANGED <<selectedPresetId, generationStatus, history>>
    /\ UNCHANGED <<timers50, timers100, generation, genCount>>
    /\ RenderCommit(IF disassemblyTimeoutRef # NULL
                    THEN [Renderer EXCEPT !.disassemblyTimeoutRef = NULL,
                                          !.safetyTimer = FALSE]
                    ELSE Renderer)
    /\ Observe

\* const t = Math.min(assemblyProgress.current, 1)
ClampProgress_none(progress) == progress
ClampProgress(progress) == Min(progress, PROGRESS_ONE)

\* if (t >= 1)
AssemblyDone(t) == t >= PROGRESS_ONE

\* ASSEMBLING: advance the progress, signal completion when it reached 1
FrameAssembling ==
    \E delta \in Deltas :
        LET dt == Min(delta, MAX_STEP_MS)
            progress == assemblyProgress + dt * ASSEMBLY_RATE_TENTHS
            t == ClampProgress(progress)
        IN  /\ mounted
            /\ animationState = ASSEMBLING
            /\ IF AssemblyDone(t)
               THEN /\ DelayBeforeAssemblyEnds
                    /\ handleAnimationComplete
                    /\ ev' = Event("frameComplete", NULL, animationState)
                    /\ UNCHANGED <<selectedPresetId, generationStatus, history>>
                    /\ UNCHANGED <<timers50, timers100, generation, genCount>>
                    /\ RenderCommit([Renderer EXCEPT !.assemblyProgress = progress])
               ELSE /\ assemblyProgress' = progress
                    /\ ev' = Event("frame", NULL, animationState)
                    /\ UNCHANGED <<particles, lastState, disassemblyTimeoutRef,
                                   safetyTimer, mounted>>
                    /\ FrameKeepsApp
            /\ Observe

-----------------------------------------------------------------------------
\* Timers and animation-frame callbacks

\* The safety timeout armed on the entry into DISASSEMBLING
SafetyTimerFires ==
    /\ mounted
    /\ safetyTimer
    /\ DelayBeforeSafetyTimer
    /\ handleAnimationComplete
    /\ ev' = Event("timerComplete", NULL, animationState)
    /\ UNCHANGED <<selectedPresetId, generationStatus, history>>
    /\ UNCHANGED <<timers50, timers100, generation, genCount>>
    /\ RenderCommit([Renderer EXCEPT !.safetyTimer = FALSE])
    /\ Observe

\* requestAnimationFrame(() => setTimeout(.., 100)) of handleAnimationComplete
RafFires ==
    /\ mounted
    /\ rafPending > 0
    /\ rafPending' = rafPending - 1
    /\ timers100' = timers100 + 1
    /\ ev' = Event("raf", NULL, animationState)
    /\ UNCHANGED <<appVars, rendererVars, timers50, generation, genCount>>
    /\ Observe

\* setTimeout(() => setAnimationState(ASSEMBLING), 50) of startModelTransition
Timer50Fires ==
    /\ mounted
    /\ timers50 > 0
    /\ timers50' = timers50 - 1
    /\ animationState' = ASSEMBLING
    /\ ev' = Event("timer50", NULL, animationState)
    /\ UNCHANGED <<voxels, currentModelName, selectedPresetId, generationStatus,
                   isAssembled, history, pendingVoxels, pendingModelName,
                   isTransitioning, modelVersion, cameraResetTrigger>>
    /\ UNCHANGED <<rafPending, timers100, generation, genCount>>
    /\ RenderCommit(Renderer)
    /\ Observe

\* setTimeout(() => { setAnimationState(ASSEMBLING); setIsTransitioning(false) }, 100)
Timer100Fires ==
    /\ mounted
    /\ timers100 > 0
    /\ timers100' = timers100 - 1
    /\ animationState' = ASSEMBLING
    /\ isTransitioning' = FALSE
    /\ ev' = Event("timer100", NULL, animationState)
    /\ UNCHANGED <<voxels, currentModelName, selectedPresetId, generationStatus,
                   isAssembled, history, pendingVoxels, pendingModelName,
                   modelVersion, cameraResetTrigger>>
    /\ UNCHANGED <<rafPending, timers50, generation, genCount>>
    /\ RenderCommit(Renderer)
    /\ Observe

-----------------------------------------------------------------------------
\* Parts of the initial state
InitControls ==
    /\ currentModelName = PRESETS[1].name
    /\ selectedPresetId = PRESETS[1].id
    /\ generationStatus = "idle"
    /\ isAssembled = FALSE
    /\ pendingVoxels = None
    /\ pendingModelName = NULL
    /\ isTransitioning = FALSE
    /\ modelVersion = 0
    /\ cameraResetTrigger = 0
InitBrowser ==
    /\ rafPending = 0
    /\ timers50 = 0
    /\ timers100 = 0
    /\ generation = NoGeneration
InitObs ==
    /\ ev = [op |-> "init", name |-> NULL, voxels |-> None, seen |-> HIDDEN,
             at |-> HIDDEN]
    /\ scenario = NoScenario
    /\ episode = NoEpisode

Init ==
    /\ voxels = PRESETS[1].voxels
    /\ currentModelName = PRESETS[1].name
    /\ selectedPresetId = PRESETS[1].id
    /\ animationState = HIDDEN
    /\ generationStatus = "idle"
    /\ isAssembled = FALSE
    /\ history = <<>>
    /\ pendingVoxels = None
    /\ pendingModelName = NULL
    /\ isTransitioning = FALSE
    /\ modelVersion = 0
    /\ cameraResetTrigger = 0
    /\ LET r == LayoutEffect(FreshRenderer, PRESETS[1].voxels, HIDDEN)
       IN  /\ particles = r.particles
           /\ assemblyProgress = r.assemblyProgress
           /\ lastState = r.lastState
           /\ disassemblyTimeoutRef = r.disassemblyTimeoutRef
           /\ safetyTimer = r.safetyTimer
           /\ mounted = r.mounted
    /\ centering = Centering(PRESETS[1].voxels)
    /\ InitBrowser
    /\ genCount = 0
    /\ InitObs

Next ==
    \/ SelectPreset
    \/ SubmitPrompt
    \/ AssembleClick
    \/ DisassembleClick
    \/ GenerateResolve
    \/ GenerateReject
    \/ FramePhysics
    \/ FrameRest
    \/ FrameSettled
    \/ FrameAssembling
    \/ SafetyTimerFires
    \/ RafFires
    \/ Timer50Fires
    \/ Timer100Fires

Spec == Init /\ [][Next]_vars

\* The render loop keeps running, and callbacks that are scheduled do run
Frame == FramePhysics \/ FrameRest \/ FrameSettled \/ FrameAssembling
Fairness ==
    /\ WF_vars(Frame)
    /\ WF_vars(SafetyTimerFires)
    /\ WF_vars(RafFires)
    /\ WF_vars(Timer50Fires)
    /\ WF_vars(Timer100Fires)
LiveSpec == Init /\ [][Next]_vars /\ Fairness

-----------------------------------------------------------------------------
\* The centering computation on its own: VoxelRenderer rendered with Voxel
\* Sets of up to MaxBoxLen voxels with coordinates from Coords.
MaxBoxLen == 2
Coords == {-1, 0, 2}
BoxVoxels == {Voxel(x, y, z) : x \in Coords, y \in Coords, z \in Coords}
BoxInputs == UNION {[1..n -> BoxVoxels] : n \in 0..MaxBoxLen}

CenteringInit ==
    /\ voxels \in BoxInputs
    /\ centering = Centering(voxels)
    /\ animationState = HIDDEN
    /\ history = <<>>
    /\ InitControls
    /\ LET r == LayoutEffect(FreshRenderer, voxels, HIDDEN)
       IN  /\ particles = r.particles
           /\ assemblyProgress = r.assemblyProgress
           /\ lastState = r.lastState
           /\ disassemblyTimeoutRef = r.disassemblyTimeoutRef
           /\ safetyTimer = r.safetyTimer
           /\ mounted = r.mounted
    /\ InitBrowser
    /\ genCount = 0
    /\ InitObs

\* A render with another voxels prop: the memo is recomputed, the layout
\* effect runs on the new Voxel Set
Recenter ==
    \E vox \in BoxInputs :
        /\ mounted
        /\ voxels' = vox
        /\ centering' = Centering(vox)
        /\ UNCHANGED <<currentModelName, selectedPresetId, animationState,
                       generationStatus, isAssembled, history, pendingVoxels,
                       pendingModelName, isTransitioning, modelVersion,
                       cameraResetTrigger>>
        /\ RenderCommit(Renderer)
        /\ ev' = Event("render", NULL, animationState)
        /\ UNCHANGED <<browserVars, scenario, episode>>

CenteringSpec == CenteringInit /\ [][Recenter]_vars

-----------------------------------------------------------------------------
\* The history on its own: the app starts with the history a previous session
\* saved (the effect that loads 'voxelBuilderHistory'), of any length up to
\* HISTORY_LIMIT, most recent first; prompts are submitted and answered.
\* the k-th saved entry; entries differ in their voxels
SavedModel(k) == [id |-> "saved", name |-> "saved", voxels |-> <<Voxel(0, k, 0)>>]
SavedHistory(n) == [k \in 1..n |-> SavedModel(k)]

HistoryInit ==
    /\ history \in {SavedHistory(n) : n \in 0..HISTORY_LIMIT}
    /\ voxels = PRESETS[1].voxels
    /\ centering = Centering(voxels)
    /\ animationState = HIDDEN
    /\ InitControls
    /\ LET r == LayoutEffect(FreshRenderer, voxels, HIDDEN)
       IN  /\ particles = r.particles
           /\ assemblyProgress = r.assemblyProgress
           /\ lastState = r.lastState
           /\ disassemblyTimeoutRef = r.disassemblyTimeoutRef
           /\ safetyTimer = r.safetyTimer
           /\ mounted = r.mounted
    /\ InitBrowser
    /\ genCount = 0
    /\ InitObs

HistoryNext ==
    \/ SubmitPrompt
    \/ GenerateResolve
    \/ GenerateReject
    \/ SelectPreset

HistorySpec == HistoryInit /\ [][HistoryNext]_vars

-----------------------------------------------------------------------------
\* The particle physics in numbers.  Lengths and velocities are in thousandths
\* of a voxel unit (per second), times in milliseconds; a product of two
\* floats is the exact product cut to a thousandth.  A vector is <<x, y, z>>.
\* The quaternion stays a tag: "identity", or "rotated" once a non-zero
\* rotation step was multiplied in.

BOUNCE_FACTOR_TENTHS == 3
FRICTION_PERCENT == 95
ROTATION_DAMPING_PERCENT == 98
AIR_DRAG_PERMILLE == 995

Abs(a) == IF a < 0 THEN -a ELSE a
\* a * num / den, cut toward zero
Scale(a, num, den) == IF a >= 0 THEN (a * num) \div den ELSE -((-a * num) \div den)
ScaleVec(v, num, den) == <<Scale(v[1], num, den), Scale(v[2], num, den),
                           Scale(v[3], num, den)>>
LengthSq(v) == v[1] * v[1] + v[2] * v[2] + v[3] * v[3]
ZeroVec == <<0, 0, 0>>
VoxelPosition(v) == <<v.x * 1000, v.y * 1000, v.z * 1000>>
\* Math.sqrt, cut to an integer
ISqrt(n) == CHOOSE r \in 0..5000 : r * r <= n /\ (r + 1) * (r + 1) > n

\* floorY + 0.5
FloorLevel(floorY) == floorY * 1000 + 500

\* particles.current = voxels.map(v => ({position: v, ..., isSleeping: false}))
NewParticleAt(v) == [position |-> VoxelPosition(v), quaternion |-> "identity",
                     velocity |-> ZeroVec, angularVelocity |-> ZeroVec,
                     isSleeping |-> FALSE]
\* HIDDEN branch
HideParticleAt(p) == [p EXCEPT !.position = ZeroVec, !.quaternion = "identity",
                               !.velocity = ZeroVec, !.angularVelocity = ZeroVec]
\* ASSEMBLED branch: lock physics
LockParticleAt_keepMotion(p, v) ==
    [p EXCEPT !.position = VoxelPosition(v), !.quaternion = "identity",
              !.isSleeping = TRUE]
LockParticleAt(p, v) ==
    [position |-> VoxelPosition(v), quaternion |-> "identity", velocity |-> ZeroVec,
     angularVelocity |-> ZeroVec, isSleeping |-> TRUE]

\* What Math.random() gave for one particle of an explosion: the force
\* EXPLOSION_FORCE * (0.8 + r * 0.8), the launch speed 5 + r * 8, the spin
\* (r - 0.5) * 15 per axis, and the normalized direction used for a particle
\* on the vertical axis of the model
RandomDraws ==
    { [force |-> 9600, lift |-> 5000, spin |-> ZeroVec, dir |-> <<1000, 0>>],
      [force |-> 19000, lift |-> 12900, spin |-> <<7000, -7000, 3000>>,
       dir |-> <<-600, 800>>] }

\* explosion of particle p of voxel v; off2 is twice the centering offset
ExplodeParticleAt(p, v, off2, rnd) ==
    LET dx2 == 2 * v.x + off2[1]
        dz2 == 2 * v.z + off2[3]
        len == ISqrt((dx2 * dx2 + dz2 * dz2) * 1000000)
        horizontalDir == IF dx2 = 0 /\ dz2 = 0 THEN rnd.dir
                         ELSE <<(dx2 * 1000000) \div len, (dz2 * 1000000) \div len>>
    IN  [position |-> VoxelPosition(v), quaternion |-> "identity",
         velocity |-> <<Scale(horizontalDir[1], rnd.force, 1000), rnd.lift,
                        Scale(horizontalDir[2], rnd.force, 1000)>>,
         angularVelocity |-> rnd.spin,
         isSleeping |-> FALSE]

\* useLayoutEffect on the numeric store; rnds[i] is what Math.random() gives
\* for particle i if this run explodes the model
PhysLayoutEffect(r, vox, st, off2, rnds) ==
    LET p1 == IF Len(r.particles) # Len(vox)
              THEN [i \in 1..Len(vox) |-> NewParticleAt(vox[i])]
              ELSE r.particles
        p2 == IF st = HIDDEN THEN [i \in 1..Len(vox) |-> HideParticleAt(p1[i])]
              ELSE IF st = ASSEMBLED
              THEN [i \in 1..Len(vox) |-> LockParticleAt(p1[i], vox[i])]
              ELSE p1
    IN  IF ColorsThrow(vox)
        THEN [r EXCEPT !.particles = p1, !.mounted = FALSE]
        ELSE IF st = DISASSEMBLING /\ r.lastState # DISASSEMBLING
        THEN [r EXCEPT !.particles = [i \in 1..Len(vox) |->
                                        ExplodeParticleAt(p2[i], vox[i], off2, rnds[i])],
                       !.disassemblyTimeoutRef = "timer",
                       !.safetyTimer = TRUE,
                       !.lastState = st]
        ELSE IF st = ASSEMBLING /\ r.lastState # ASSEMBLING
        THEN [r EXCEPT !.particles = [i \in 1..Len(p2) |-> WakeParticle(p2[i])],
                       !.assemblyProgress = 0,
                       !.lastState = st]
        ELSE [r EXCEPT !.particles = p2, !.lastState = st]

\* The re-render after a handler of this specification: the key never changes
PhysRenderCommit(r, rnds) ==
    SetRenderer(IF animationState' # animationState
                THEN PhysLayoutEffect(r, voxels, animationState', centering.offset2, rnds)
                ELSE r)
NoDraws == [i \in 1..Len(voxels) |-> CHOOSE rnd \in RandomDraws : TRUE]

\* useFrame, one particle that is not asleep: gravity, drag, damping, motion
Integrate(p, dt) ==
    LET v1 == <<p.velocity[1], p.velocity[2] - GRAVITY * dt, p.velocity[3]>>
        v2 == ScaleVec(v1, AIR_DRAG_PERMILLE, 1000)
        w2 == ScaleVec(p.angularVelocity, ROTATION_DAMPING_PERCENT, 100)
        rotStep == ScaleVec(w2, dt, 1000)
    IN  [p EXCEPT !.velocity = v2,
                  !.angularVelocity = w2,
                  !.position = <<p.position[1] + Scale(v2[1], dt, 1000),
                                 p.position[2] + Scale(v2[2], dt, 1000),
                                 p.position[3] + Scale(v2[3], dt, 1000)>>,
                  !.quaternion = IF rotStep = ZeroVec THEN p.quaternion ELSE "rotated"]

\* the bounce of a particle that moves downward on the floor
Bounce(p, dt) ==
    LET vx == Scale(p.velocity[1], FRICTION_PERCENT, 100)
        vy == Scale(-p.velocity[2], BOUNCE_FACTOR_TENTHS, 10)
        vz == Scale(p.velocity[3], FRICTION_PERCENT, 100)
        w == p.angularVelocity
    IN  [p EXCEPT !.velocity = <<vx, vy, vz>>,
                  !.angularVelocity =
                      IF vx * vx + vz * vz > 250000
                      THEN <<w[1] + Scale(vz, 2 * dt, 1000), w[2],
                             w[3] - Scale(vx, 2 * dt, 1000)>>
                      ELSE w]

\* if (Math.abs(p.velocity.y) < 0.1 && p.velocity.lengthSq() < 0.1)
Slow(p) == Abs(p.velocity[2]) < 100 /\ LengthSq(p.velocity) < 100000

\* if (p.position.y < floorY + 0.5) { ... }
Collide_whenFalling(p, floorY, dt) ==
    IF p.position[2] < FloorLevel(floorY)
    THEN LET p1 == IF p.velocity[2] < 0
                   THEN Bounce([p EXCEPT !.position[2] = FloorLevel(floorY)], dt)
                   ELSE p
         IN  [p1 EXCEPT !.isSleeping = Slow(p1)]
    ELSE p
Collide(p, floorY, dt) ==
    IF p.position[2] < FloorLevel(floorY)
    THEN LET p0 == [p EXCEPT !.position[2] = FloorLevel(floorY)]
             p1 == IF p0.velocity[2] < 0 THEN Bounce(p0, dt) ELSE p0
         IN  [p1 EXCEPT !.isSleeping = Slow(p1)]
    ELSE p

StepParticle(p, floorY, dt) == Collide(Integrate(p, dt), floorY, dt)

\* The models and frame times of this specification
PhysModels ==
    { <<Voxel(0, 0, 0)>>, SPHERE_VOXELS, <<Voxel(-1, 0, -1), Voxel(1, 1, 0)>> }
PhysDeltas == {16}

PhysInit ==
    /\ voxels \in PhysModels
    /\ centering = Centering(voxels)
    /\ animationState = HIDDEN
    /\ history = <<>>
    /\ InitControls
    /\ LET r == PhysLayoutEffect(FreshRenderer, voxels, HIDDEN, centering.offset2,
                                 <<>>)
       IN  /\ particles = r.particles
           /\ assemblyProgress = r.assemblyProgress
           /\ lastState = r.lastState
           /\ disassemblyTimeoutRef = r.disassemblyTimeoutRef
           /\ safetyTimer = r.safetyTimer
           /\ mounted = r.mounted
    /\ InitBrowser
    /\ genCount = 0
    /\ InitObs

PhysKeeps ==
    UNCHANGED <<voxels, currentModelName, selectedPresetId, generationStatus, history,
                pendingVoxels, pendingModelName, modelVersion, cameraResetTrigger,
                centering, browserVars, scenario, episode>>

\* The Assemble button with nothing pending: handleAssemble's else branch
PhysAssemble ==
    /\ mounted
    /\ ~isAssembleDisabled("presets", "")
    /\ ~Truthy(pendingVoxels)
    /\ animationState' = ASSEMBLING
    /\ ev' = Event("assemble", NULL, animationState)
    /\ UNCHANGED <<isAssembled, isTransitioning>>
    /\ PhysRenderCommit(Renderer, NoDraws)
    /\ PhysKeeps

\* The Disassemble button: handleDisassemble
PhysDisassemble ==
    \E rnds \in [1..Len(voxels) -> RandomDraws] :
        /\ mounted
        /\ isAssembled /\ generationStatus # "generating"
        /\ animationState # DISASSEMBLING
        /\ isTransitioning' = FALSE
        /\ animationState' = DISASSEMBLING
        /\ ev' = Event("disassemble", NULL, animationState)
        /\ UNCHANGED isAssembled
        /\ PhysRenderCommit(Renderer, rnds)
        /\ PhysKeeps

\* useFrame in DISASSEMBLING or COLLAPSED with particles still moving
PhysFrameMoving ==
    \E delta \in PhysDeltas :
        LET dt == Min(delta, MAX_STEP_MS)
        IN  /\ mounted
            /\ animationState \in {DISASSEMBLING, COLLAPSED}
            /\ ActiveParticles # {}
            /\ particles' = [i \in 1..Len(particles) |->
                                IF particles[i].isSleeping THEN particles[i]
                                ELSE StepParticle(particles[i], centering.floorY, dt)]
            /\ ev' = Event("frame", NULL, animationState)
            /\ UNCHANGED <<assemblyProgress, lastState, disassemblyTimeoutRef,
                           safetyTimer, mounted, animationState, isAssembled,
                           isTransitioning>>
            /\ PhysKeeps

\* useFrame in DISASSEMBLING with every particle asleep: completion
PhysFrameSettled ==
    /\ mounted
    /\ animationState = DISASSEMBLING
    /\ ActiveParticles = {}
    /\ ~isTransitioning
    /\ handleAnimationComplete
    /\ ev' = Event("frameComplete", NULL, animationState)
    /\ PhysRenderCommit(IF disassemblyTimeoutRef # NULL
                        THEN [Renderer EXCEPT !.disassemblyTimeoutRef = NULL,
                                              !.safetyTimer = FALSE]
                        ELSE Renderer, NoDraws)
    /\ UNCHANGED <<selectedPresetId, generationStatus, history, centering, timers50,
                   timers100, generation, genCount, scenario, episode>>

\* useFrame in ASSEMBLING
PhysFrameAssembling ==
    \E delta \in Deltas :
        LET dt == Min(delta, MAX_STEP_MS)
            progress == assemblyProgress + dt * ASSEMBLY_RATE_TENTHS
            t == ClampProgress(progress)
        IN  /\ mounted
            /\ animationState = ASSEMBLING
            /\ IF AssemblyDone(t)
               THEN /\ handleAnimationComplete
                    /\ ev' = Event("frameComplete", NULL, animationState)
                    /\ PhysRenderCommit([Renderer EXCEPT !.assemblyProgress = progress],
                                        NoDraws)
                    /\ UNCHANGED <<selectedPresetId, generationStatus, history,
                                   centering, timers50, timers100, generation, genCount,
                                   scenario, episode>>
               ELSE /\ assemblyProgress' = progress
                    /\ ev' = Event("frame", NULL, animationState)
                    /\ UNCHANGED <<particles, lastState, disassemblyTimeoutRef,
                                   safetyTimer, mounted, animationState, isAssembled,
                                   isTransitioning>>
                    /\ PhysKeeps

\* The safety timeout of the explosion
PhysSafetyTimer ==
    /\ mounted
    /\ safetyTimer
    /\ ~isTransitioning
    /\ handleAnimationComplete
    /\ ev' = Event("timerComplete", NULL, animationState)
    /\ PhysRenderCommit([Renderer EXCEPT !.safetyTimer = FALSE], NoDraws)
    /\ UNCHANGED <<selectedPresetId, generationStatus, history, centering, timers50,
                   timers100, generation, genCount, scenario, episode>>

PhysNext ==
    \/ PhysAssemble
    \/ PhysDisassemble
    \/ PhysFrameMoving
    \/ PhysFrameSettled
    \/ PhysFrameAssembling
    \/ PhysSafetyTimer

PhysicsSpec == PhysInit /\ [][PhysNext]_vars

-----------------------------------------------------------------------------
\* Properties

\* The Active Model, Pending, and the cells a commit advances
ActiveModel == <<voxels, currentModelName>>
Pending == <<pendingVoxels, pendingModelName>>
NoPending == <<None, NULL>>
\* What the renderer keeps between frames, and the callbacks still to run
Armed == <<particles, assemblyProgress, lastState, disassemblyTimeoutRef, safetyTimer,
           rafPending, timers50, timers100>>

\* This step ran the completion callback / requestModel while the phase was st
CompletionIn(st) == ev'.op \in CompletionOps /\ animationState = st
RequestIn(st) == ev'.op = "requestModel" /\ animationState = st

\* C1: after a requestModel(B) made in ASSEMBLED with no Pending and followed by
\* no input, the phases run ASSEMBLED, DISASSEMBLING, HIDDEN, ASSEMBLING,
\* ASSEMBLED, the active model is B once the run is complete, and Pending is
\* empty in every phase but DISASSEMBLING.
ExpectedPath == <<ASSEMBLED, DISASSEMBLING, HIDDEN, ASSEMBLING, ASSEMBLED>>
C1_TransitionScenario ==
    scenario.on =>
        /\ IsPrefix(scenario.path, ExpectedPath)
        /\ scenario.path = ExpectedPath =>
               ActiveModel = <<scenario.voxels[1], scenario.name>>
        /\ animationState # DISASSEMBLING => Pending = NoPending

\* C2: the phase leaves DISASSEMBLING only in a step that runs the completion
\* callback, every run of the callback in DISASSEMBLING ends the episode, and
\* the natural completion leaves no safety timer behind to run it again.
C2_DisassemblingCompletesOnce ==
    [][ /\ (animationState = DISASSEMBLING /\ animationState' # DISASSEMBLING)
            => ev'.op \in CompletionOps
        /\ CompletionIn(DISASSEMBLING) => animationState' # DISASSEMBLING
        /\ (ev'.op = "frameComplete" /\ animationState = DISASSEMBLING)
            => ~safetyTimer' ]_vars

\* C3: a safety timer that fires when the phase is not DISASSEMBLING changes
\* neither the phase, nor the active model, nor Pending, nor the
\* transition-pending flag.
C3_StaleTimerIgnored ==
    [][ (ev'.op = "timerComplete" /\ animationState # DISASSEMBLING)
            => UNCHANGED <<animationState, ActiveModel, Pending, isTransitioning>> ]_vars

\* C4: in a DISASSEMBLING episode started by requestModel(B) in ASSEMBLED the
\* active model does not change before the completion, and when a second
\* requestModel(C) was the last input of the episode the completion commits C.
C4_DoubleRequest ==
    [][ /\ (episode.open /\ animationState' = DISASSEMBLING) => UNCHANGED ActiveModel
        /\ (episode.open /\ animationState' # DISASSEMBLING)
            => ev'.op \in CompletionOps
        /\ (episode.open /\ episode.calls = 2 /\ episode.quiet
              /\ animationState' # DISASSEMBLING)
            => /\ ActiveModel' = <<episode.last.voxels[1], episode.last.name>>
               /\ animationState' = HIDDEN ]_vars
C4_Witness ==
    /\ ~episode.open /\ episode.calls = 2 /\ episode.quiet /\ episode.superseded
    /\ ev.op \in CompletionOps
    /\ ActiveModel = <<episode.last.voxels[1], episode.last.name>>

\* C5: every run of the completion callback in ASSEMBLING is at the step at
\* which the clamped progress first reaches 1, and it ends the episode.
C5_AssemblingCompletesAtOne ==
    [][ CompletionIn(ASSEMBLING)
            => /\ assemblyProgress < PROGRESS_ONE
               /\ assemblyProgress' >= PROGRESS_ONE
               /\ animationState' # ASSEMBLING ]_vars

\* C6: requestModel made while the phase is ASSEMBLED stores the request as
\* Pending, sets the transition-pending flag and the phase DISASSEMBLING, and
\* leaves the active model and the version counter alone.
C6_RequestWhileAssembled ==
    [][ RequestIn(ASSEMBLED)
            => /\ Pending' = <<ev'.voxels, ev'.name>>
               /\ isTransitioning'
               /\ animationState' = DISASSEMBLING
               /\ UNCHANGED <<ActiveModel, modelVersion>> ]_vars

\* C7: requestModel made while the phase is DISASSEMBLING stores the request as
\* Pending and sets the transition-pending flag; the phase, the particles, the
\* safety timer, the delayed callbacks, the active model and the version
\* counter are unchanged.
C7_RequestWhileDisassembling ==
    [][ RequestIn(DISASSEMBLING)
            => /\ Pending' = <<ev'.voxels, ev'.name>>
               /\ isTransitioning'
               /\ UNCHANGED <<animationState, Armed, ActiveModel, modelVersion>> ]_vars
C7_Witness ==
    /\ ev.op = "requestModel" /\ ev.at = DISASSEMBLING
    /\ animationState = DISASSEMBLING /\ isTransitioning
    /\ Pending = <<ev.voxels, ev.name>>
    /\ safetyTimer /\ \E i \in 1..Len(particles) : ~particles[i].isSleeping

\* C8: requestModel made while the phase is HIDDEN, COLLAPSED or ASSEMBLING
\* commits at once: the active model is the requested one, Pending is empty,
\* the version counter is one more, the phase is HIDDEN and the presentation
\* delay is armed.
C8_RequestElsewhere ==
    [][ (ev'.op = "requestModel" /\ animationState \in {HIDDEN, COLLAPSED, ASSEMBLING})
            => /\ ActiveModel' = <<ev'.voxels[1], ev'.name>>
               /\ Pending' = NoPending
               /\ modelVersion' = modelVersion + 1
               /\ animationState' = HIDDEN
               /\ timers50' = timers50 + 1 ]_vars

\* C9: the completion callback run in DISASSEMBLING with the transition-pending
\* flag set makes the Pending model the active one, empties Pending, advances
\* the version counter, sets the phase HIDDEN and arms the delay; the delayed
\* callback sets the phase ASSEMBLING and clears the flag.
C9_CompletionWithFlag ==
    [][ /\ (CompletionIn(DISASSEMBLING) /\ isTransitioning)
            => /\ Truthy(pendingVoxels)
               /\ ActiveModel' = <<pendingVoxels[1], pendingModelName>>
               /\ Pending' = NoPending
               /\ modelVersion' = modelVersion + 1
               /\ animationState' = HIDDEN
               /\ isTransitioning'
               /\ rafPending' = rafPending + 1
        /\ ev'.op = "raf" => (timers100' = timers100 + 1 /\ UNCHANGED appVars)
        /\ ev'.op = "timer100" => (animationState' = ASSEMBLING /\ ~isTransitioning') ]_vars
C9_Witness ==
    /\ ev.op \in CompletionOps /\ ev.at = DISASSEMBLING
    /\ animationState = HIDDEN /\ isTransitioning
    /\ Pending = NoPending /\ modelVersion > 0 /\ rafPending > 0

\* C10: the completion callback run in ASSEMBLING sets the phase ASSEMBLED and
\* clears the transition-pending flag; run in DISASSEMBLING with the flag not
\* set it sets the phase COLLAPSED; either way the active model, Pending and
\* the version counter are unchanged.
C10_CompletionWithoutFlag ==
    [][ /\ CompletionIn(ASSEMBLING)
            => /\ animationState' = ASSEMBLED /\ ~isTransitioning'
               /\ UNCHANGED <<ActiveModel, Pending, modelVersion>>
        /\ (CompletionIn(DISASSEMBLING) /\ ~isTransitioning)
            => /\ animationState' = COLLAPSED /\ ~isTransitioning'
               /\ UNCHANGED <<ActiveModel, Pending, modelVersion>> ]_vars
C10_Witness ==
    /\ ev.op = "frameComplete" /\ ev.at = ASSEMBLING
    /\ animationState = ASSEMBLED /\ ~isTransitioning
    /\ Truthy(pendingVoxels)

\* C11: a failed gateway call sets the generation status 'error' and leaves the
\* active model, the phase, Pending, the version counter and the history as
\* they were.
C11_GenerationFailure ==
    [][ ev'.op = "generateFailed"
            => /\ generationStatus' = "error"
               /\ UNCHANGED <<ActiveModel, animationState, Pending, modelVersion,
                              history>> ]_vars
C11_Witness ==
    /\ ev.op = "generateFailed" /\ generationStatus = "error"
    /\ Truthy(pendingVoxels) /\ animationState = DISASSEMBLING

\* C12: the particle store always has one entry per voxel of the active Voxel
\* Set, and the step that commits a new Voxel Set leaves a store allocated anew
\* for it (the phase is HIDDEN, every particle at the origin).
C12_StoreMatchesVoxels ==
    [][ /\ Len(particles) = Len(voxels)
        /\ Len(particles') = Len(voxels')
        /\ modelVersion' # modelVersion
            => particles' = [i \in 1..Len(voxels') |-> HideParticle(NewParticle)] ]_vars
C12_Witness ==
    /\ modelVersion > 0 /\ ev.op = "frame"
    /\ Len(voxels) # Len(PRESETS[1].voxels)
    /\ Len(particles) = Len(voxels)

\* C13: every phase change is HIDDEN to ASSEMBLING, ASSEMBLING to ASSEMBLED,
\* ASSEMBLED to DISASSEMBLING, DISASSEMBLING to COLLAPSED or HIDDEN, COLLAPSED
\* to ASSEMBLING, or an immediate commit from COLLAPSED or ASSEMBLING to HIDDEN.
PhaseSteps ==
    { <<HIDDEN, ASSEMBLING>>, <<ASSEMBLING, ASSEMBLED>>, <<ASSEMBLED, DISASSEMBLING>>,
      <<DISASSEMBLING, COLLAPSED>>, <<DISASSEMBLING, HIDDEN>>,
      <<COLLAPSED, ASSEMBLING>>, <<COLLAPSED, HIDDEN>>, <<ASSEMBLING, HIDDEN>> }
C13_PhaseSteps ==
    [][ animationState' # animationState
            => <<animationState, animationState'>> \in PhaseSteps ]_vars

\* C14: no step starts a gateway call while one is outstanding (the generation
\* status is 'generating').
C14_OneGeneration ==
    [][ ev'.op = "generate"
            => (generationStatus # "generating" /\ ~generation.active) ]_vars
C14_Witness ==
    /\ ev.op = "generate" /\ generationStatus = "generating" /\ generation.active
    /\ \A activeTab \in Tabs, prompt \in PromptInputs :
           isAssembleDisabled(activeTab, prompt)

\* C20: disassemble() clears the transition-pending flag and sets the phase
\* DISASSEMBLING; the active model, Pending and the version counter are unchanged.
C20_Disassemble ==
    [][ ev'.op = "disassemble"
            => /\ ~isTransitioning'
               /\ animationState' = DISASSEMBLING
               /\ UNCHANGED <<ActiveModel, Pending, modelVersion>> ]_vars
C20_Witness ==
    /\ ev.op = "disassemble" /\ ev.at = DISASSEMBLING
    /\ animationState = DISASSEMBLING /\ ~isTransitioning
    /\ Truthy(pendingVoxels)

C15_PhaseLeaves ==
    (animationState = DISASSEMBLING)
        ~> (animationState # DISASSEMBLING)

\* C19: the centering offset is (-(minX+maxX)/2, -minY + 0.5, -(minZ+maxZ)/2)
\* and the floor reference is minY, over the bounding box of the Voxel Set; for
\* the empty Voxel Set they are the origin and 0.  (offset2 is twice the offset.)
SetMin(S) == CHOOSE m \in S : \A n \in S : m <= n
SetMax(S) == CHOOSE m \in S : \A n \in S : m >= n
C19_Centering ==
    LET xs == {voxels[i].x : i \in 1..Len(voxels)}
        ys == {voxels[i].y : i \in 1..Len(voxels)}
        zs == {voxels[i].z : i \in 1..Len(voxels)}
    IN  IF voxels = <<>>
        THEN centering = [offset2 |-> <<0, 0, 0>>, floorY |-> 0]
        ELSE /\ centering.offset2 = <<-(SetMin(xs) + SetMax(xs)), 1 - 2 * SetMin(ys),
                                      -(SetMin(zs) + SetMax(zs))>>
             /\ centering.floorY = SetMin(ys)
C19_Witness ==
    /\ ev.op = "render" /\ Len(voxels) = 2
    /\ voxels[1] = Voxel(2, 2, 0) /\ voxels[2] = Voxel(-1, 2, 2)
    /\ centering = [offset2 |-> <<-1, -3, -2>>, floorY |-> 2]

\* C18: the history never holds more than HISTORY_LIMIT entries; a successful
\* generation puts the generated model first and keeps the earlier entries in
\* their order behind it, dropping the last (oldest) one when the history was
\* full.
C18_HistoryCapped ==
    [][ /\ Len(history) <= HISTORY_LIMIT
        /\ Len(history') <= HISTORY_LIMIT
        /\ (generation.active /\ generationStatus' = "success")
            => /\ history'[1].name = generation.prompt
               /\ history'[1].voxels = ev'.voxels[1]
               /\ \A k \in 1..Len(history) : history'[1] # history[k]
               /\ Len(history') = Min(Len(history) + 1, HISTORY_LIMIT)
               /\ \A k \in 2..Len(history') : history'[k] = history[k - 1] ]_vars
C18_Witness ==
    /\ generationStatus = "success"
    /\ Len(history) = HISTORY_LIMIT
    /\ history[1].id = "gen-1"
    /\ history[2] = SavedModel(1)
    /\ history[HISTORY_LIMIT] = SavedModel(HISTORY_LIMIT - 1)

\* C16: in DISASSEMBLING and COLLAPSED, after every frame step each particle
\* the step integrated is at or above floorY + 0.5, and every sleeping particle
\* is exactly at floorY + 0.5, before the step and after it.
C16_FloorClamp ==
    [][ (animationState \in {DISASSEMBLING, COLLAPSED}
            /\ ev'.op \in {"frame", "frameComplete"})
        => \A i \in 1..Len(particles) :
            /\ ~particles[i].isSleeping
                => particles'[i].position[2] >= centering.floorY * 1000 + 500
            /\ particles[i].isSleeping
                => particles[i].position[2] = centering.floorY * 1000 + 500
            /\ particles'[i].isSleeping
                => particles'[i].position[2] = centering.floorY * 1000 + 500 ]_vars
C16_Witness ==
    /\ animationState = DISASSEMBLING
    /\ ev.op = "frame"
    /\ \E i, j \in 1..Len(particles) :
        /\ particles[i].isSleeping
        /\ particles[i].position[2] = centering.floorY * 1000 + 500
        /\ particles[i].position[1] # voxels[i].x * 1000
        /\ ~particles[j].isSleeping
        /\ particles[j].position[2] = centering.floorY * 1000 + 500
        /\ particles[j].velocity[2] > 0

\* C17: a step that enters ASSEMBLED leaves every particle i at the coordinates
\* of voxel i, with identity orientation, zero linear and angular velocity and
\* asleep; running the layout effect on that store again changes nothing; the
\* particle of the model of one voxel at (0,0,0) is at (0,0,0).
C17_AssembledLock ==
    [][ (animationState' = ASSEMBLED /\ animationState # ASSEMBLED)
        => /\ Len(particles') = Len(voxels')
           /\ \A i \in 1..Len(voxels') :
                particles'[i] = [position |-> <<voxels'[i].x * 1000, voxels'[i].y * 1000,
                                                voxels'[i].z * 1000>>,
                                 quaternion |-> "identity",
                                 velocity |-> <<0, 0, 0>>,
                                 angularVelocity |-> <<0, 0, 0>>,
                                 isSleeping |-> TRUE]
           /\ PhysLayoutEffect(Renderer', voxels', ASSEMBLED, centering'.offset2,
                               <<>>) = Renderer'
           /\ voxels' = <<Voxel(0, 0, 0)>> => particles'[1].position = <<0, 0, 0>> ]_vars
C17_Witness ==
    /\ animationState = ASSEMBLED
    /\ ev.op = "frameComplete"
    /\ ev.at = ASSEMBLING
    /\ voxels = <<Voxel(0, 0, 0)>>
    /\ Len(particles) = 1
    /\ particles[1].position = <<0, 0, 0>>
    /\ particles[1].isSleeping

\* C21: assemble() with a Pending model is requestModel(Pending.voxels,
\* Pending.name) decided on the current phase (ASSEMBLED: Pending kept, flag
\* set, DISASSEMBLING; DISASSEMBLING: Pending kept, flag set; otherwise the
\* immediate commit); with no Pending it sets the phase ASSEMBLING and leaves
\* the active model, the version counter and the flag unchanged.
AssembleStep == ev'.op \in {"assemble", "requestModel"} /\ ~generation.active
C21_Assemble ==
    [][ AssembleStep =>
          IF Pending # NoPending
          THEN /\ ev' = Request("requestModel", pendingModelName, pendingVoxels,
                                animationState)
               /\ animationState = ASSEMBLED
                    => /\ Pending' = Pending /\ isTransitioning'
                       /\ animationState' = DISASSEMBLING
                       /\ UNCHANGED <<ActiveModel, modelVersion>>
               /\ animationState = DISASSEMBLING
                    => /\ Pending' = Pending /\ isTransitioning'
                       /\ UNCHANGED <<animationState, Armed, ActiveModel, modelVersion>>
               /\ animationState \in {HIDDEN, COLLAPSED, ASSEMBLING}
                    => /\ ActiveModel' = <<pendingVoxels[1], pendingModelName>>
                       /\ Pending' = NoPending
                       /\ modelVersion' = modelVersion + 1
                       /\ animationState' = HIDDEN
                       /\ timers50' = timers50 + 1
          ELSE /\ ev'.op = "assemble"
               /\ animationState' = ASSEMBLING
               /\ UNCHANGED <<ActiveModel, Pending, modelVersion, isTransitioning>> ]_vars
C21_Witness ==
    /\ ev.op = "requestModel" /\ ev.at = ASSEMBLED /\ ev.seen = ASSEMBLED
    /\ selectedPresetId # NULL
    /\ ~generation.active /\ generationStatus = "idle"
    /\ animationState = DISASSEMBLING /\ isTransitioning
    /\ Pending = <<ev.voxels, ev.name>>

C23_ResolveOnCurrentPhase ==
    [][ (ev'.op = "requestModel" /\ generation.active)
        => /\ animationState = ASSEMBLED
                => /\ Pending' = <<ev'.voxels, ev'.name>> /\ isTransitioning'
                   /\ animationState' = DISASSEMBLING
                   /\ UNCHANGED ActiveModel
           /\ animationState = DISASSEMBLING
                => /\ Pending' = <<ev'.voxels, ev'.name>> /\ isTransitioning'
                   /\ UNCHANGED <<animationState, ActiveModel>>
           /\ animationState \in {HIDDEN, COLLAPSED, ASSEMBLING}
                => /\ ActiveModel' = <<ev'.voxels[1], ev'.name>>
                   /\ Pending' = NoPending
                   /\ animationState' = HIDDEN ]_vars

\* C24: the progress is 0 on every entry into ASSEMBLING, it is never negative,
\* no step of an ASSEMBLING episode decreases it, a frame adds 0.8 times
\* min(delta, 0.04) to it, and the value the frame uses for the blend factor and
\* the completion test lies in [0, 1].
C24_Progress ==
    [][ /\ (animationState' = ASSEMBLING /\ animationState # ASSEMBLING)
            => assemblyProgress' = 0
        /\ assemblyProgress >= 0
        /\ animationState = ASSEMBLING
            => /\ assemblyProgress' >= assemblyProgress \/ animationState' # ASSEMBLING
               /\ ev'.op \in {"frame", "frameComplete"}
                    => /\ assemblyProgress' > assemblyProgress
                       /\ assemblyProgress' - assemblyProgress
                             <= MAX_STEP_MS * ASSEMBLY_RATE_TENTHS
                       /\ ClampProgress(assemblyProgress') >= 0
                       /\ ClampProgress(assemblyProgress') <= PROGRESS_ONE ]_vars
C24_Witness ==
    /\ ev.op = "frameComplete" /\ ev.at = ASSEMBLING
    /\ animationState = ASSEMBLED
    /\ assemblyProgress > PROGRESS_ONE
    /\ ClampProgress(assemblyProgress) = PROGRESS_ONE

\* C25: with an active Voxel Set of no voxel the engine keeps running: the tree
\* stays mounted, a frame in DISASSEMBLING is the one that signals completion
\* and takes the phase to COLLAPSED or HIDDEN, and the frame that completes an
\* assembly takes the phase to ASSEMBLED.
C25_EmptySetRuns ==
    [][ Len(voxels') = 0
        => /\ mounted'
           /\ (Len(voxels) = 0 /\ animationState = DISASSEMBLING
                 /\ ev'.op \in {"frame", "frameComplete"})
                => (ev'.op = "frameComplete" /\ animationState' \in {COLLAPSED, HIDDEN})
           /\ (Len(voxels) = 0 /\ animationState = ASSEMBLING /\ ev'.op = "frameComplete")
                => (assemblyProgress' >= PROGRESS_ONE /\ animationState' = ASSEMBLED) ]_vars

\* C26: isAssembled is true exactly when the phase is ASSEMBLED, and every
\* disassemble() the controls let through was made while the phase was ASSEMBLED.
C26_FlagMatchesPhase ==
    /\ isAssembled <=> animationState = ASSEMBLED
    /\ ev.op = "disassemble" => ev.at = ASSEMBLED

\* C28: in a DISASSEMBLING episode started by a requestModel in ASSEMBLED, the
\* completion that commits a model commits the one of the most recent
\* requestModel, whatever presets or history items were selected meanwhile.
C28_SelectionKeepsRequest ==
    [][ (episode.open /\ CompletionIn(DISASSEMBLING) /\ isTransitioning)
            => ActiveModel' = <<episode.last.voxels[1], episode.last.name>> ]_vars

\* C29: whenever the phase is DISASSEMBLING and the transition-pending flag is
\* set, pending voxels and pending name are both present.
C29_FlagHasPending ==
    (animationState = DISASSEMBLING /\ isTransitioning)
        => (Truthy(pendingVoxels) /\ TruthyName(pendingModelName))
C29_Witness ==
    /\ animationState = DISASSEMBLING /\ isTransitioning
    /\ ev.op = "selectPreset"
    /\ Truthy(pendingVoxels) /\ pendingModelName = ev.name
    /\ generation.active

\* C27: a model given to requestModel in ASSEMBLED, or to a later requestModel
\* of the DISASSEMBLING episode that call started, becomes the active model:
\* every such episode leads to a state in which it is over and the active model
\* is the one of its most recent requestModel.
C27_RequestCommitted ==
    episode.open
        ~> (/\ ~episode.open /\ episode.calls > 0
            /\ ActiveModel = <<episode.last.voxels[1], episode.last.name>>)

\* C30: when no further user operation and no generation result arrives while
\* frames and timers keep running, the phase reaches a resting phase and stays
\* there: either inputs keep arriving for ever, or from some point on the phase
\* is ASSEMBLED or COLLAPSED for good, or it is HIDDEN for good and no assemble
\* was ever commanded (no step of handleAssemble or requestModel, which both
\* command an assembly, has been taken).
InputStep == ev'.op \in InputOps \cup {"generateFailed"}
AssembleCommanded == ev.op \in {"assemble", "requestModel"}
C30_ComesToRest ==
    \/ []<><<InputStep>>_vars
    \/ <>[](animationState \in {ASSEMBLED, COLLAPSED})
    \/ (<>[](animationState = HIDDEN) /\ [](~AssembleCommanded))

\* C30 for the behaviours in which the scene stays mounted
C30_ComesToRestWhileMounted == C30_ComesToRest \/ <>[](~mounted)

====
